---- MODULE Spec2Model ----
(***************************************************************************)
(* A model of the K&R style next-fit pool allocator: the circular,         *)
(* address-ordered free list embedded in the managed memory, the cursor    *)
(* a->p, the spinlock a->lock, and the calls add, alloc, free, realloc,    *)
(* allocsz and for_blocks issued by several threads.                       *)
(*                                                                         *)
(* Addresses are byte addresses.  Memory is an array of size_t-sized words; *)
(* a FreeNode_t header at h is the word at h (nunits) and the word after   *)
(* it (nxt).  Payload words change only by what the allocator writes and   *)
(* by realloc's memcpy.                                                    *)
(***************************************************************************)
EXTENDS Integers, FiniteSets, Sequences, TLC

\* ------------------------------------------------------------------ bounds
\* Number of threads sharing the one allocator.
NThreads == 2
\* Total number of API calls the threads begin.
MaxOps == 3
\* The calls begun in the longer runs of the same threads.
DeepOps == 5
\* The calls begun in the runs of one thread alone.
SeqOps == 8
\* Width of size_t and uintptr_t in bits.
SizeBits == 8
\* The calls one thread may begin when it seeds a region and exhausts it.
ExhaustOps == 12

\* --------------------------------------------------------------- constants
\* sizeof(FreeNode_t): a size_t and a pointer (the flexible array adds none).
UNITSZ == 16
\* alignof(size_t), the alignment allocator_add brings a region to.
ALIGNOF_SIZE_T == 8
\* The null pointer.
NULL == 0

SizeMod == 2 ^ SizeBits
SIZE_MAX == SizeMod - 1

Threads == 1 .. NThreads

\* sizeof(size_t): the size of one memory word, and the offset of nxt in a
\* FreeNode_t.
WORDSZ == 8

\* The addresses of the memory words.  Headers lie on word addresses:
\* allocator_add aligns to alignof(size_t), and every other header is whole
\* units away from one.
WordAddrs == { a \in 1 .. SIZE_MAX : a % WORDSZ = 0 }

\* The byte ranges callers hand to allocator_add: pairwise disjoint.
\*   [16, 96)    five units, unit aligned
\*   [96, 144)   three units, touching the first from above
\*   [148, 188)  needs 4 bytes of padding: header at 152 = 8 mod 16
\*   [192, 208)  exactly one unit: too small
\*   [211, 214)  shorter than its 5 bytes of padding: too small
Regions ==
  { [p |-> 16,  nbytes |-> 80],
    [p |-> 96,  nbytes |-> 48],
    [p |-> 148, nbytes |-> 40],
    [p |-> 192, nbytes |-> 16],
    [p |-> 211, nbytes |-> 3] }

\* Sizes callers pass to alloc and realloc.
Sizes == { 0, UNITSZ, UNITSZ + 1, SIZE_MAX }

\* ----------------------------------------------------------- pure helpers
\* aln_offset: least value to add to base to align it to aln.
aln_offset(base, aln) == IF base % aln # 0 THEN aln - (base % aln) ELSE 0

\* size_t arithmetic wraps.
SzAdd(x, y) == (x + y) % SizeMod
SzSub(x, y) == (x - y) % SizeMod

\* The fields of the FreeNode_t at h in memory m, and their assignment.
Nunits(m, h) == m[h]
Nxt(m, h) == m[h + WORDSZ]
SetNunits(m, h, v) == [m EXCEPT ![h] = v]
SetNxt(m, h, v) == [m EXCEPT ![h + WORDSZ] = v]

\* A header can be read and written at h: both its words are memory.
Valid(h) == h \in WordAddrs /\ h + WORDSZ \in WordAddrs

\* The address of the header nunits units after the header at h (FreeNode_t
\* pointer arithmetic).
Plus(h, nunits) == h + UNITSZ * nunits

\* allocator_allocsz: payload capacity in bytes, read from the header before p.
allocsz(m, p) ==
  IF p # NULL THEN (SzSub(Nunits(m, p - UNITSZ), 1) * UNITSZ) % SizeMod ELSE 0

\* allocator_alloc's early exit: zero size, or rounding up would overflow.
AllocRejects(nbytes) ==
  LET inc == aln_offset(nbytes, UNITSZ)
  IN  nbytes = 0 \/ SIZE_MAX - inc < nbytes

\* A rounding that forgets the unit of the header.
NeedNoHeader(nbytes) == (nbytes + aln_offset(nbytes, UNITSZ)) \div UNITSZ

\* allocator_alloc: nbytes rounded up to whole units, plus one for the header.
Need(nbytes) == (nbytes + aln_offset(nbytes, UNITSZ)) \div UNITSZ + 1

\* The number of loop iterations after which a walk of the free list is
\* known not to end: more than there are places for a header.
Fuel == Cardinality(WordAddrs) + 1

\* A search that passes over a block of exactly the size wanted.
RECURSIVE AllocSearchStrict(_, _, _, _, _, _)
AllocSearchStrict(m, a, prv, cur, nunits, fuel) ==
  IF ~Valid(cur)
  THEN [found |-> FALSE, stuck |-> TRUE, prv |-> prv, cur |-> cur]
  ELSE IF Nunits(m, cur) > nunits
  THEN [found |-> TRUE, stuck |-> FALSE, prv |-> prv, cur |-> cur]
  ELSE IF cur = a
  THEN [found |-> FALSE, stuck |-> FALSE, prv |-> prv, cur |-> cur]
  ELSE IF fuel = 0
  THEN [found |-> FALSE, stuck |-> TRUE, prv |-> prv, cur |-> cur]
  ELSE AllocSearchStrict(m, a, cur, Nxt(m, cur), nunits, fuel - 1)

\* allocator_alloc's search loop from (prv, cur): the first node with
\* cur->nunits >= nunits, or no match once cur is back at the cursor a.
\* stuck: the loop never ends, or it follows nxt out of memory (a fault); in
\* both cases the call never leaves its critical section.
RECURSIVE AllocSearch(_, _, _, _, _, _)
AllocSearch(m, a, prv, cur, nunits, fuel) ==
  IF ~Valid(cur)
  THEN [found |-> FALSE, stuck |-> TRUE, prv |-> prv, cur |-> cur]
  ELSE IF Nunits(m, cur) >= nunits
  THEN [found |-> TRUE, stuck |-> FALSE, prv |-> prv, cur |-> cur]
  ELSE IF cur = a
  THEN [found |-> FALSE, stuck |-> FALSE, prv |-> prv, cur |-> cur]
  ELSE IF fuel = 0
  THEN [found |-> FALSE, stuck |-> TRUE, prv |-> prv, cur |-> cur]
  ELSE AllocSearch(m, a, cur, Nxt(m, cur), nunits, fuel - 1)

\* A split that hands out the low end of the block instead of its tail.
AllocTakeLow(m, prv, cur, nunits) ==
  IF Nunits(m, cur) = nunits
  THEN IF Nxt(m, prv) # Nxt(m, cur)
       THEN [mem |-> SetNxt(m, prv, Nxt(m, cur)), p |-> prv,
             res |-> cur + UNITSZ, stuck |-> FALSE]
       ELSE [mem |-> m, p |-> NULL, res |-> cur + UNITSZ, stuck |-> FALSE]
  ELSE LET rest == Plus(cur, nunits)
           m1 == SetNxt(SetNunits(m, rest, SzSub(Nunits(m, cur), nunits)),
                        rest, IF Nxt(m, cur) = cur THEN rest ELSE Nxt(m, cur))
           m2 == IF prv = cur THEN m1 ELSE SetNxt(m1, prv, rest)
       IN  [mem |-> SetNunits(m2, cur, nunits),
            p |-> IF prv = cur THEN rest ELSE prv,
            res |-> cur + UNITSZ, stuck |-> ~Valid(rest)]

\* What allocator_alloc does with the match cur after prv: unlink an exact
\* fit (or empty a singleton list), else split the tail off.
AllocTake(m, prv, cur, nunits) ==
  IF Nunits(m, cur) = nunits
  THEN \* unlink block
       IF Nxt(m, prv) # Nxt(m, cur)
       THEN [mem |-> SetNxt(m, prv, Nxt(m, cur)), p |-> prv,
             res |-> cur + UNITSZ, stuck |-> FALSE]
       ELSE [mem |-> m, p |-> NULL, res |-> cur + UNITSZ, stuck |-> FALSE]
  ELSE \* adjust size and allocate from tail
       LET m1 == SetNunits(m, cur, SzSub(Nunits(m, cur), nunits))
           tail == Plus(cur, Nunits(m1, cur))
       IN  IF ~Valid(tail) THEN [mem |-> m1, p |-> prv, res |-> NULL, stuck |-> TRUE]
           ELSE [mem |-> SetNunits(m1, tail, nunits), p |-> prv,
                 res |-> tail + UNITSZ, stuck |-> FALSE]

\* allocator_alloc's critical section on memory m with cursor a.
\* Yields the memory, the cursor and the result.
AllocBody(m, a, nbytes) ==
  IF a = NULL THEN [mem |-> m, p |-> a, res |-> NULL, stuck |-> FALSE]
  ELSE
    LET nunits == Need(nbytes)
        s == AllocSearch(m, a, a, Nxt(m, a), nunits, Fuel)
    IN  IF s.stuck THEN [mem |-> m, p |-> a, res |-> NULL, stuck |-> TRUE]
        ELSE IF ~s.found THEN [mem |-> m, p |-> a, res |-> NULL, stuck |-> FALSE]
        ELSE AllocTake(m, s.prv, s.cur, nunits)

\* allocator_free's walk to the insertion point of the block at header p.
RECURSIVE FreeWalk(_, _, _, _)
FreeWalk(m, cur, p, fuel) ==
  IF ~Valid(cur) THEN [stuck |-> TRUE, cur |-> cur]
  ELSE
    LET nxt == Nxt(m, cur)
    IN  IF p > cur /\ p < nxt THEN [stuck |-> FALSE, cur |-> cur]
        ELSE IF cur >= nxt /\ (p > cur \/ p < nxt) THEN [stuck |-> FALSE, cur |-> cur]
        ELSE IF fuel = 0 THEN [stuck |-> TRUE, cur |-> cur]
        ELSE FreeWalk(m, nxt, p, fuel - 1)

\* allocator_free's first test: coalesce the block at p with cur's successor,
\* or link p to it.
FreeJoinNxt(m, cur, p) ==
  IF Plus(p, Nunits(m, p)) = Nxt(m, cur)
  THEN \* coalesce with nxt
       LET u == SetNunits(m, p, SzAdd(Nunits(m, p), Nunits(m, Nxt(m, cur))))
       IN  SetNxt(u, p, Nxt(u, Nxt(u, cur)))
  ELSE SetNxt(m, p, Nxt(m, cur))

\* allocator_free's second test: coalesce cur with the block at p, or link cur
\* to p.
FreeJoinPrv(m, cur, p) ==
  IF Plus(cur, Nunits(m, cur)) = p
  THEN \* coalesce with prv
       LET u == SetNunits(m, cur, SzAdd(Nunits(m, cur), Nunits(m, p)))
       IN  SetNxt(u, cur, Nxt(u, p))
  ELSE SetNxt(m, cur, p)

\* allocator_free's critical section for the payload pointer ptr (not null).
FreeBody(m, a, ptr) ==
  LET p == ptr - UNITSZ
  IN  IF a # NULL
      THEN LET w == FreeWalk(m, a, p, Fuel)
               nxt == Nxt(m, w.cur)
           IN  IF w.stuck \/ (Plus(p, Nunits(m, p)) = nxt /\ ~Valid(nxt))
               THEN [mem |-> m, p |-> a, stuck |-> TRUE]
               ELSE [mem |-> FreeJoinPrv(FreeJoinNxt(m, w.cur, p), w.cur, p),
                     p |-> w.cur, stuck |-> FALSE]
      ELSE \* no freelist: create singleton with p
           [mem |-> SetNxt(m, p, p), p |-> p, stuck |-> FALSE]

\* allocator_for_blocks's do-while from cur: the number of callback calls;
\* stuck when the walk never comes back to the cursor or leaves memory.
RECURSIVE ForBlocksWalk(_, _, _, _, _)
ForBlocksWalk(m, a, cur, n, fuel) ==
  IF ~Valid(cur) THEN [stuck |-> TRUE, calls |-> n]
  ELSE
    LET nxt == Nxt(m, cur)
    IN  IF nxt = a THEN [stuck |-> FALSE, calls |-> n + 1]
        ELSE IF fuel = 0 THEN [stuck |-> TRUE, calls |-> n + 1]
        ELSE ForBlocksWalk(m, a, nxt, n + 1, fuel - 1)

ForBlocksBody(m, a) ==
  IF a # NULL THEN ForBlocksWalk(m, a, a, 0, Fuel)
  ELSE [stuck |-> FALSE, calls |-> 0]

\* allocator_add before its call of allocator_free: the padding, the unit
\* count, whether the region is accepted, and the header address.
AddInc(p) == aln_offset(p, ALIGNOF_SIZE_T)
AddUnits(p, nbytes) == SzSub(nbytes, AddInc(p)) \div UNITSZ
\* A test that lets a region of exactly the padding and one unit through.
AddAcceptsOneUnit(p, nbytes) ==
  nbytes >= AddInc(p) + UNITSZ /\ AddUnits(p, nbytes) # 0
\* allocator_add's test.
AddAccepts(p, nbytes) == nbytes > AddInc(p) + UNITSZ /\ AddUnits(p, nbytes) # 0
AddHeader(p) == p + AddInc(p)

\* realloc's memcpy(res, p, n): the n bytes at src copied word by word to dst.
Memcpy(m, dst, src, n) ==
  [w \in WordAddrs |->
     IF w >= dst /\ w < dst + n THEN m[src + (w - dst)] ELSE m[w]]

\* The n bytes at p are memory.
InMemory(p, n) == p \in WordAddrs /\ p + n <= SizeMod

\* ------------------------------------------------------------------ state
VARIABLES
  mem,      \* the memory words
  ap,       \* a->p: the cursor into the free list, or NULL
  lock,     \* a->lock
  lockFree, \* the build: ATOMIC_BOOL_LOCK_FREE == 2 (test and test-and-set)
  pc,       \* where each thread is: idle, lock (at spinlock's exchange), spin
            \* (in its loop on a load), cs (holding the lock), unlock (at
            \* spinunlock), memcpy, ret (returning); hang (never leaving its
            \* critical section) and fault (outside it)
  frame,    \* each thread's call: its arguments, locals and result
  live,     \* history: the allocations handed out and not yet given back
  seeded,   \* history: the regions accepted by add
  budget    \* the number of calls the threads may still begin

vars == <<mem, ap, lock, lockFree, pc, frame, live, seeded, budget>>

\* A thread that is in no call.
NoFrame == [call |-> "none", op |-> "none", p |-> NULL, nbytes |-> 0,
            res |-> NULL, calls |-> 0]

\* The pointers some call in progress holds: no other call may pass them.
Held == { frame[t].p : t \in Threads } \cup { frame[t].res : t \in Threads }

\* The pointers a caller may pass to free or realloc: null, or the result of
\* an alloc or realloc that has not been freed and is in no other call.
Freeable == { NULL } \cup { l.ptr : l \in { x \in live : x.ptr \notin Held } }

\* ALLOCATOR_INIT: no free list, unlocked.  The memory is zeroed.  The build
\* is either one: with a lock-free atomic_bool or without.
InitWith(calls) ==
  /\ mem = [w \in WordAddrs |-> 0]
  /\ ap = NULL
  /\ lock = FALSE
  /\ lockFree \in BOOLEAN
  /\ pc = [t \in Threads |-> "idle"]
  /\ frame = [t \in Threads |-> NoFrame]
  /\ live = {}
  /\ seeded = {}
  /\ budget = calls

Init == InitWith(MaxOps)

\* A thread begins a call: frame f, continuing at label l.
Begin(t, f, l) ==
  /\ pc[t] = "idle"
  /\ budget > 0
  /\ budget' = budget - 1
  /\ frame' = [frame EXCEPT ![t] = f]
  /\ pc' = [pc EXCEPT ![t] = l]

\* allocator_alloc up to spinlock: null at once for a rejected size.
CallAlloc(t, nbytes) ==
  /\ Begin(t, [NoFrame EXCEPT !.call = "alloc", !.op = "alloc", !.nbytes = nbytes],
           IF AllocRejects(nbytes) THEN "ret" ELSE "lock")
  /\ UNCHANGED <<mem, ap, lock, lockFree, live, seeded>>

\* allocator_free up to spinlock: nothing for a null pointer.
CallFree(t, ptr) ==
  /\ ptr \in Freeable
  /\ Begin(t, [NoFrame EXCEPT !.call = "free", !.op = "free", !.p = ptr],
           IF ptr = NULL THEN "ret" ELSE "lock")
  /\ UNCHANGED <<mem, ap, lock, lockFree, live, seeded>>

\* A test that also moves a block whose capacity is exactly nbytes.
ReallocGrowsAtCapacity(m, ptr, nbytes) == allocsz(m, ptr) <= nbytes

\* allocator_realloc's test for a new block: the capacity is below nbytes.
ReallocGrows(m, ptr, nbytes) == allocsz(m, ptr) < nbytes

\* allocator_realloc up to the spinlock of its first inner call.
CallRealloc(t, ptr, nbytes) ==
  /\ ptr \in Freeable
  /\ LET f == [NoFrame EXCEPT !.call = "realloc", !.p = ptr, !.nbytes = nbytes]
     IN  IF ptr = NULL
         THEN Begin(t, [f EXCEPT !.op = "alloc"],
                    IF AllocRejects(nbytes) THEN "ret" ELSE "lock")
         ELSE IF nbytes = 0
         THEN Begin(t, [f EXCEPT !.op = "free"], "lock")
         ELSE IF ReallocGrows(mem, ptr, nbytes)
         THEN Begin(t, [f EXCEPT !.op = "alloc"],
                    IF AllocRejects(nbytes) THEN "ret" ELSE "lock")
         ELSE Begin(t, [f EXCEPT !.res = ptr], "ret")
  /\ UNCHANGED <<mem, ap, lock, lockFree, live, seeded>>

\* The regions a caller may pass to add: those whose bytes the allocator has
\* not been given (a rejected region stays the caller's).
Addable ==
  { r \in Regions :
      /\ AddHeader(r.p) \notin { s.hdr : s \in seeded }
      /\ AddHeader(r.p) + UNITSZ \notin Held }

\* allocator_add up to the spinlock of its allocator_free: the header is
\* written before the lock is taken.
AddRegion(t, r) ==
  /\ IF AddAccepts(r.p, r.nbytes)
     THEN /\ mem' = SetNunits(mem, AddHeader(r.p), AddUnits(r.p, r.nbytes))
          /\ Begin(t, [NoFrame EXCEPT !.call = "add", !.op = "free",
                                      !.p = AddHeader(r.p) + UNITSZ], "lock")
     ELSE /\ mem' = mem
          /\ Begin(t, [NoFrame EXCEPT !.call = "add"], "ret")
  /\ UNCHANGED <<ap, lock, lockFree, live, seeded>>

\* A caller adds a region that is his to give.
CallAdd(t, r) == r \in Addable /\ AddRegion(t, r)

\* allocator_for_blocks up to spinlock.
CallForBlocks(t) ==
  /\ Begin(t, [NoFrame EXCEPT !.call = "for_blocks", !.op = "for_blocks"], "lock")
  /\ UNCHANGED <<mem, ap, lock, lockFree, live, seeded>>

\* Where spinlock goes after an exchange that read old.
AfterExchange(old) == IF ~old THEN "cs" ELSE IF lockFree THEN "spin" ELSE "lock"

\* spinlock's exchange (either variant): set the flag and read what it was.
LockExchange(t) ==
  /\ pc[t] = "lock"
  /\ lock' = TRUE
  /\ pc' = [pc EXCEPT ![t] = AfterExchange(lock)]
  /\ UNCHANGED <<mem, ap, lockFree, frame, live, seeded, budget>>

\* A loop that goes back to the exchange whatever the load read.
LockSpinBlind(t) ==
  /\ pc[t] = "spin"
  /\ pc' = [pc EXCEPT ![t] = "lock"]
  /\ UNCHANGED <<mem, ap, lock, lockFree, frame, live, seeded, budget>>

\* The test and test-and-set variant's loop on a load: retry once it is clear.
LockSpin(t) ==
  /\ pc[t] = "spin"
  /\ pc' = [pc EXCEPT ![t] = IF lock THEN "spin" ELSE "lock"]
  /\ UNCHANGED <<mem, ap, lock, lockFree, frame, live, seeded, budget>>

\* allocator_alloc between spinlock and spinunlock.
AllocCS(t) ==
  /\ pc[t] = "cs"
  /\ frame[t].op = "alloc"
  /\ LET b == AllocBody(mem, ap, frame[t].nbytes)
     IN  /\ mem' = b.mem
         /\ ap' = b.p
         /\ frame' = [frame EXCEPT ![t].res = b.res]
         /\ pc' = [pc EXCEPT ![t] = IF b.stuck THEN "hang" ELSE "unlock"]
         /\ live' = IF b.res = NULL THEN live
                    ELSE live \cup {[ptr |-> b.res, nunits |-> Need(frame[t].nbytes)]}
  /\ UNCHANGED <<lock, lockFree, seeded, budget>>

\* allocator_free between spinlock and spinunlock (also for add and realloc).
FreeCS(t) ==
  /\ pc[t] = "cs"
  /\ frame[t].op = "free"
  /\ LET b == FreeBody(mem, ap, frame[t].p)
     IN  /\ mem' = b.mem
         /\ ap' = b.p
         /\ pc' = [pc EXCEPT ![t] = IF b.stuck THEN "hang" ELSE "unlock"]
         /\ live' = IF b.stuck THEN live ELSE { l \in live : l.ptr # frame[t].p }
         /\ seeded' = IF frame[t].call = "add" /\ ~b.stuck
                      THEN seeded \cup {[hdr |-> frame[t].p - UNITSZ,
                                         nunits |-> Nunits(mem, frame[t].p - UNITSZ)]}
                      ELSE seeded
  /\ UNCHANGED <<lock, lockFree, frame, budget>>

\* allocator_for_blocks between spinlock and spinunlock.
ForBlocksCS(t) ==
  /\ pc[t] = "cs"
  /\ frame[t].op = "for_blocks"
  /\ LET b == ForBlocksBody(mem, ap)
     IN  /\ frame' = [frame EXCEPT ![t].calls = b.calls]
         /\ pc' = [pc EXCEPT ![t] = IF b.stuck THEN "hang" ELSE "unlock"]
  /\ UNCHANGED <<mem, ap, lock, lockFree, live, seeded, budget>>

\* A mistaken continuation that copies even when the inner alloc found nothing.
AfterUnlockCopyAlways(f) ==
  IF f.call = "realloc" /\ f.op = "alloc" /\ f.p # NULL THEN "memcpy" ELSE "ret"

\* Where a thread goes after spinunlock: realloc copies after its alloc found
\* a block, every other call returns.
AfterUnlock(f) ==
  IF f.call = "realloc" /\ f.op = "alloc" /\ f.p # NULL /\ f.res # NULL
  THEN "memcpy" ELSE "ret"

\* spinunlock (either variant).
Unlock(t) ==
  /\ pc[t] = "unlock"
  /\ lock' = FALSE
  /\ pc' = [pc EXCEPT ![t] = AfterUnlock(frame[t])]
  /\ UNCHANGED <<mem, ap, lockFree, frame, live, seeded, budget>>

\* allocator_realloc after its alloc: copy the old payload, then free it.
ReallocCopy(t) ==
  /\ pc[t] = "memcpy"
  /\ LET n == allocsz(mem, frame[t].p)
     IN  IF InMemory(frame[t].p, n) /\ InMemory(frame[t].res, n)
         THEN /\ mem' = Memcpy(mem, frame[t].res, frame[t].p, n)
              /\ frame' = [frame EXCEPT ![t].op = "free"]
              /\ pc' = [pc EXCEPT ![t] = "lock"]
         ELSE \* the copy leaves memory: a fault
              /\ mem' = mem
              /\ frame' = frame
              /\ pc' = [pc EXCEPT ![t] = "fault"]
  /\ UNCHANGED <<ap, lock, lockFree, live, seeded, budget>>

\* The call returns to its caller.
Return(t) ==
  /\ pc[t] = "ret"
  /\ pc' = [pc EXCEPT ![t] = "idle"]
  /\ frame' = [frame EXCEPT ![t] = NoFrame]
  /\ UNCHANGED <<mem, ap, lock, lockFree, live, seeded, budget>>

\* A caller begins any call with any arguments it may pass.
Call(t) ==
  /\ pc[t] = "idle"
  /\ budget > 0
  /\ \/ \E n \in Sizes : CallAlloc(t, n)
     \/ \E ptr \in Freeable : CallFree(t, ptr)
     \/ \E ptr \in Freeable, n \in Sizes : CallRealloc(t, ptr, n)
     \/ \E r \in Addable : CallAdd(t, r)
     \/ CallForBlocks(t)

Step(t) ==
    \/ Call(t)
    \/ LockExchange(t)
    \/ LockSpin(t)
    \/ AllocCS(t)
    \/ FreeCS(t)
    \/ ForBlocksCS(t)
    \/ Unlock(t)
    \/ ReallocCopy(t)
    \/ Return(t)

Next == \E t \in Threads : Step(t)

Spec == Init /\ [][Next]_vars

\* The same threads, with more calls.
DeepInit == InitWith(DeepOps)
DeepNext == \E t \in Threads : Step(t)
DeepSpec == DeepInit /\ [][DeepNext]_vars

\* One thread alone, with more calls still: it never finds the lock taken, so
\* it never gets to spinlock's loop on a load.
SeqStep(t) ==
    \/ Call(t)
    \/ LockExchange(t)
    \/ AllocCS(t)
    \/ FreeCS(t)
    \/ ForBlocksCS(t)
    \/ Unlock(t)
    \/ ReallocCopy(t)
    \/ Return(t)

SeqInit == InitWith(SeqOps) /\ lockFree
SeqNext == SeqStep(1)
SeqSpec == SeqInit /\ [][SeqNext]_vars

\* ------------------------------------------------- the free list, observed
\* The nodes met following nxt from the cursor a, in order, until the walk is
\* back at a (closed) or has met more nodes than memory can hold.
RECURSIVE RingWalk(_, _, _, _, _)
RingWalk(m, a, cur, acc, fuel) ==
  LET nxt == Nxt(m, cur)
      seen == Append(acc, cur)
  IN  IF nxt = a THEN [nodes |-> seen, closed |-> TRUE]
      ELSE IF fuel = 0 \/ nxt \notin WordAddrs \/ nxt + WORDSZ \notin WordAddrs
      THEN [nodes |-> seen, closed |-> FALSE]
      ELSE RingWalk(m, a, nxt, seen, fuel - 1)

Ring(m, a) ==
  IF a = NULL THEN [nodes |-> <<>>, closed |-> TRUE]
  ELSE RingWalk(m, a, a, <<>>, Fuel)

Range(s) == { s[i] : i \in 1 .. Len(s) }

\* The free blocks: the nodes on the list.
FreeNodes == Range(Ring(mem, ap).nodes)

\* The bytes of the block of n units whose header is at h.
BlockBytes(h, n) == h .. (h + UNITSZ * n - 1)

\* The words of the headers on the free list.
FreeHeaderWords == UNION { {h, h + WORDSZ} : h \in FreeNodes }

\* The threads between a completed spinlock and its spinunlock.
Holders == { t \in Threads : pc[t] \in {"cs", "unlock", "hang"} }

\* The words thread u's next step reads or writes without holding the lock:
\*   idle      realloc(p, n) reads p's header (allocsz); add writes the
\*             region's header
\*   memcpy    realloc reads p's header and payload and writes res's payload
UnlockedWords(u) ==
  IF pc[u] = "idle" /\ budget > 0
  THEN { p - UNITSZ : p \in Freeable \ {NULL} }
       \cup { AddHeader(r.p) : r \in { x \in Addable : AddAccepts(x.p, x.nbytes) } }
  ELSE IF pc[u] = "memcpy"
  THEN LET n == allocsz(mem, frame[u].p)
       IN  {frame[u].p - UNITSZ}
           \cup { w \in WordAddrs : w >= frame[u].p /\ w < frame[u].p + n }
           \cup { w \in WordAddrs : w >= frame[u].res /\ w < frame[u].res + n }
  ELSE {}

\* The sum of nunits over a finite set of records (regions, allocations).
RECURSIVE SumUnits(_)
SumUnits(S) ==
  IF S = {} THEN 0
  ELSE LET x == CHOOSE y \in S : TRUE
       IN  x.nunits + SumUnits(S \ {x})

\* The sum of the header's nunits over a finite set of header addresses.
RECURSIVE SumFree(_)
SumFree(H) ==
  IF H = {} THEN 0
  ELSE LET h == CHOOSE y \in H : TRUE
       IN  Nunits(mem, h) + SumFree(H \ {h})

\* The bytes of a live allocation, header included, as it was handed out.
LiveBytes(l) == BlockBytes(l.ptr - UNITSZ, l.nunits)
\* The bytes of the free block at h, as its header says.
FreeBytes(h) == BlockBytes(h, Nunits(mem, h))
\* The usable bytes of the accepted regions.
SeededBytes == UNION { BlockBytes(s.hdr, s.nunits) : s \in seeded }
\* The bytes that are seeded and in no live allocation: what is free.
UnusedBytes == SeededBytes \ UNION { LiveBytes(l) : l \in live }
\* The free blocks there should be: the maximal runs of unused bytes, by
\* their first byte.
UnusedRuns == { b \in UnusedBytes : b - 1 \notin UnusedBytes }

\* ------------------------------------------------------------------ claims
\* C1: at most one thread at a time is between a completed spinlock acquire
\* and its matching spinunlock, and it then holds a set lock; while a thread
\* is there, no other thread's step touches a free-list header without the
\* lock (the cursor is touched only between spinlock and spinunlock).
MutualExclusion ==
  /\ Cardinality(Holders) <= 1
  /\ Holders # {} => lock
  /\ \A t \in Holders : \A u \in Threads \ {t} :
       UnlockedWords(u) \cap FreeHeaderWords = {}

\* C1's case: one thread is in its critical section while another has tried
\* the lock and found it taken.
ContendedLock ==
  \E t, u \in Threads :
    /\ pc[t] = "cs"
    /\ pc[u] \in {"spin", "lock"}
    /\ frame[u].op # "none"
    /\ frame[t].op \in {"alloc", "free"}
    /\ ap # NULL

\* C2: the unit ranges (header included) of the live allocations are
\* pairwise disjoint, disjoint from every block on the free list, and inside
\* the seeded regions.
LiveDisjoint ==
  /\ \A l1, l2 \in live : l1 # l2 => LiveBytes(l1) \cap LiveBytes(l2) = {}
  /\ \A l \in live : \A h \in FreeNodes : LiveBytes(l) \cap FreeBytes(h) = {}
  /\ \A l \in live : LiveBytes(l) \subseteq SeededBytes

\* C3: the cursor is null exactly when nothing is free; otherwise following
\* nxt from the cursor comes back to it, meeting every free block once and no
\* other node.
RingClosure ==
  LET r == Ring(mem, ap)
  IN  /\ ap = NULL <=> UnusedRuns = {}
      /\ r.closed
      /\ Cardinality(Range(r.nodes)) = Len(r.nodes)
      /\ Len(r.nodes) = Cardinality(UnusedRuns)
      /\ Range(r.nodes) = UnusedRuns

\* The number of steps down in address on the way round the list from the
\* cursor, the step back to the cursor included.
Descents ==
  LET ns == Ring(mem, ap).nodes
  IN  Cardinality({ i \in 1 .. Len(ns) : Nxt(mem, ns[i]) <= ns[i] })

\* C4: round the free list from the cursor, block addresses strictly increase
\* except for one step down, the wrap from the highest block to the lowest.
AddressOrder == ap # NULL => Ring(mem, ap).closed /\ Descents = 1

\* C5: a free block whose successor is higher in address ends strictly before
\* its successor starts.
NoTouching ==
  \A h \in FreeNodes : Nxt(mem, h) > h => Plus(h, Nunits(mem, h)) < Nxt(mem, h)

\* C6: the units on the free list are the units seeded less the units of the
\* live allocations.
Conservation ==
  SumFree(FreeNodes) = SumUnits(seeded) - SumUnits(live)

\* C7: the payload of every free block and every pointer handed out is a
\* multiple of UNITSZ.
UnitAligned ==
  /\ \A h \in FreeNodes : (h + UNITSZ) % UNITSZ = 0
  /\ \A l \in live : l.ptr % UNITSZ = 0

\* What the interface says of a size: nbytes in whole units, rounded up; the
\* units a block for it needs, header included; and the sizes that cannot be
\* rounded up within size_t.
CeilUnits(nbytes) == (nbytes + UNITSZ - 1) \div UNITSZ
UnitsFor(nbytes) == CeilUnits(nbytes) + 1
RoundingOverflows(nbytes) == CeilUnits(nbytes) * UNITSZ > SIZE_MAX

\* Thread t begins a call whose first inner call is alloc.
EntersAlloc(t) == pc[t] = "idle" /\ pc'[t] # "idle" /\ frame'[t].op = "alloc"
\* Thread t runs alloc's critical section.
RunsAlloc(t) == pc[t] = "cs" /\ frame[t].op = "alloc" /\ pc'[t] # "cs"

\* C8: alloc(nbytes) returns null exactly when nbytes is 0, rounding it up
\* would overflow, the free list is empty, or no free block has
\* nunits >= ceil(nbytes/UNITSZ) + 1; otherwise it returns a pointer.
AllocNullExactly ==
  [][\A t \in Threads :
       /\ EntersAlloc(t) =>
            IF frame'[t].nbytes = 0 \/ RoundingOverflows(frame'[t].nbytes)
            THEN pc'[t] = "ret" /\ frame'[t].res = NULL
            ELSE pc'[t] = "lock"
       /\ RunsAlloc(t) =>
            /\ pc'[t] = "unlock"
            /\ frame'[t].res = NULL <=>
                 \/ ap = NULL
                 \/ \A h \in FreeNodes : Nunits(mem, h) < UnitsFor(frame[t].nbytes)
  ]_vars

\* C8's case: alloc has searched a list that is not empty and given up.
AllocGaveUp ==
  \E t \in Threads :
    /\ pc[t] = "unlock"
    /\ frame[t].op = "alloc"
    /\ frame[t].res = NULL
    /\ Len(Ring(mem, ap).nodes) >= 2

\* C9: when alloc(n) has succeeded, allocsz of its result is at least n, less
\* than n + 2 * UNITSZ, and (nunits - 1) * UNITSZ of the block's header.
SizeQuery ==
  \A t \in Threads :
    (pc[t] = "unlock" /\ frame[t].op = "alloc" /\ frame[t].res # NULL) =>
      LET sz == allocsz(mem, frame[t].res)
      IN  /\ sz >= frame[t].nbytes
          /\ sz < frame[t].nbytes + 2 * UNITSZ
          /\ sz = (Nunits(mem, frame[t].res - UNITSZ) - 1) * UNITSZ

\* C9's case: alloc has split a block off for a size that is not a whole
\* number of units.
AllocReturned ==
  \E t \in Threads :
    /\ pc[t] = "unlock"
    /\ frame[t].op = "alloc"
    /\ frame[t].res # NULL
    /\ frame[t].nbytes % UNITSZ # 0
    /\ ap # NULL

\* Thread t begins realloc(p, n) with p not null and allocsz(p) >= n.
EntersReallocFitting(t) ==
  /\ pc[t] = "idle"
  /\ pc'[t] # "idle"
  /\ frame'[t].call = "realloc"
  /\ frame'[t].p # NULL
  /\ allocsz(mem, frame'[t].p) >= frame'[t].nbytes

\* realloc returns p at once and changes nothing.
ReturnsSame(t) ==
  /\ pc'[t] = "ret"
  /\ frame'[t].res = frame'[t].p
  /\ mem' = mem
  /\ ap' = ap
  /\ lock' = lock

\* C10 as claimed: for a live p and every n with allocsz(p) >= n,
\* realloc(p, n) returns p and leaves the free list, the cursor and p's header
\* as they were.
ReallocNoShrinkAnySize ==
  [][\A t \in Threads : EntersReallocFitting(t) => ReturnsSame(t)]_vars

\* C10, amended: the same for every n >= 1 (realloc(p, 0) frees p).
ReallocNoShrink ==
  [][\A t \in Threads :
       (EntersReallocFitting(t) /\ frame'[t].nbytes >= 1) => ReturnsSame(t)]_vars

\* C10's case: realloc is returning the pointer it was given, for a size
\* that is its whole capacity.
ReallocKept ==
  \E t \in Threads :
    /\ pc[t] = "ret"
    /\ frame[t].call = "realloc"
    /\ frame[t].p # NULL
    /\ frame[t].res = frame[t].p
    /\ frame[t].nbytes = allocsz(mem, frame[t].p)

\* Thread t is in a realloc(p, n) of a pointer p that is not null, at its
\* inner alloc(n).
InGrowingRealloc(t) ==
  frame[t].call = "realloc" /\ frame[t].op = "alloc" /\ frame[t].p # NULL

\* The step leaves the memory (every header and link), the cursor and the
\* set of live allocations as they were.
KeepsHeap == mem' = mem /\ ap' = ap /\ live' = live

\* C11: when the inner alloc(n) of realloc(p, n), p live and n > allocsz(p),
\* finds no block (at its early exit or after its search), realloc returns
\* null, p stays live with its header as it was, p is not put on the free
\* list and the free list is unchanged.
ReallocFailure ==
  [][\A t \in Threads :
       /\ ( /\ pc[t] = "idle"
            /\ pc'[t] # "idle"
            /\ frame'[t].call = "realloc"
            /\ frame'[t].p # NULL
            /\ frame'[t].nbytes > allocsz(mem, frame'[t].p)
            /\ AllocRejects(frame'[t].nbytes) ) =>
              pc'[t] = "ret" /\ frame'[t].res = NULL /\ KeepsHeap
       /\ ( /\ pc[t] = "cs"
            /\ InGrowingRealloc(t)
            /\ pc'[t] = "unlock"
            /\ frame'[t].res = NULL ) => KeepsHeap
       /\ ( /\ pc[t] = "unlock"
            /\ InGrowingRealloc(t)
            /\ frame[t].res = NULL
            /\ pc'[t] # "unlock" ) =>
              pc'[t] = "ret" /\ frame'[t].res = NULL /\ KeepsHeap
       /\ ( /\ pc[t] = "ret"
            /\ InGrowingRealloc(t)
            /\ frame[t].res = NULL
            /\ pc'[t] = "idle" ) =>
              frame[t].p \in { l.ptr : l \in live } /\ KeepsHeap
  ]_vars

\* C11's case: realloc's inner alloc has searched a list that is not empty
\* and found no block for the larger size.
ReallocFoundNothing ==
  \E t \in Threads :
    /\ pc[t] = "unlock"
    /\ InGrowingRealloc(t)
    /\ frame[t].res = NULL
    /\ ap # NULL
    /\ frame[t].p \in { l.ptr : l \in live }

\* Thread t is in realloc(p, 0) of a pointer p that is not null.
InReallocZero(t) ==
  frame[t].call = "realloc" /\ frame[t].p # NULL /\ frame[t].nbytes = 0

\* The units [h, h + n units) lie inside one block of the free list of
\* memory m with cursor a.
OnFreeList(m, a, h, n) ==
  \E f \in Range(Ring(m, a).nodes) :
    f <= h /\ Plus(h, n) <= Plus(f, Nunits(m, f))

\* An alloc(nbytes) run on memory m with cursor a returns a pointer.
AllocSucceeds(m, a, nbytes) ==
  /\ ~AllocRejects(nbytes)
  /\ ~AllocBody(m, a, nbytes).stuck
  /\ AllocBody(m, a, nbytes).res # NULL

\* C12: realloc(p, 0) of a live p with capacity c = allocsz(p) returns null
\* and puts p's block back on the free list, and an alloc(c) run right after
\* it returns a pointer; realloc(null, 0) returns null and free(null) changes
\* nothing.
ReallocIdentity ==
  [][\A t \in Threads :
       /\ ( /\ pc[t] = "cs"
            /\ InReallocZero(t)
            /\ pc'[t] # "cs" ) =>
              /\ pc'[t] = "unlock"
              /\ frame'[t].res = NULL
              /\ frame[t].p \notin { l.ptr : l \in live' }
              /\ OnFreeList(mem', ap', frame[t].p - UNITSZ,
                            Nunits(mem, frame[t].p - UNITSZ))
              /\ AllocSucceeds(mem', ap', allocsz(mem, frame[t].p))
       /\ ( /\ pc[t] = "unlock"
            /\ InReallocZero(t)
            /\ pc'[t] # "unlock" ) => pc'[t] = "ret" /\ frame'[t].res = NULL
       /\ ( /\ pc[t] = "idle"
            /\ pc'[t] # "idle"
            /\ frame'[t].p = NULL
            /\ \/ frame'[t].call = "free"
               \/ frame'[t].call = "realloc" /\ frame'[t].nbytes = 0 ) =>
              pc'[t] = "ret" /\ frame'[t].res = NULL /\ KeepsHeap
       /\ ( /\ pc[t] = "ret"
            /\ frame[t].p = NULL
            /\ frame[t].call \in {"free", "realloc"}
            /\ pc'[t] = "idle" ) => KeepsHeap
  ]_vars

\* C12's case: realloc(p, 0) has put back a block that was split off a larger
\* one, and free blocks remain.
ReallocZeroFreed ==
  \E t \in Threads :
    /\ pc[t] = "unlock"
    /\ InReallocZero(t)
    /\ ap # NULL
    /\ frame[t].p \notin { l.ptr : l \in live }

\* ------------------------------------------------- seeding and exhausting
\* The unit-aligned regions of 10 * UNITSZ bytes that fit in memory.
TenUnitRegions ==
  { [p |-> b, nbytes |-> 10 * UNITSZ] :
      b \in { x \in WordAddrs : x % UNITSZ = 0 /\ x + 10 * UNITSZ <= SizeMod } }

\* The caller's alloc(1) has returned null: he stops there.
Exhausted(t) ==
  pc[t] = "ret" /\ frame[t].call = "alloc" /\ frame[t].res = NULL

\* The caller seeds a fresh allocator with one such region.
ExhaustSeed(t) ==
  /\ seeded = {}
  /\ frame[t].call = "none"
  /\ \E r \in TenUnitRegions : AddRegion(t, r)

\* Then he calls alloc(1), again and again.
ExhaustAlloc(t) == seeded # {} /\ CallAlloc(t, 1)

\* A call returns, unless it is the alloc(1) that gave null.
ExhaustReturn(t) == ~Exhausted(t) /\ Return(t)

ExhaustInit == InitWith(ExhaustOps)
ExhaustNext ==
  \/ ExhaustSeed(1)
  \/ ExhaustAlloc(1)
  \/ LockExchange(1)
  \/ FreeCS(1)
  \/ AllocCS(1)
  \/ Unlock(1)
  \/ ExhaustReturn(1)
ExhaustSpec == ExhaustInit /\ [][ExhaustNext]_vars

\* C13 as claimed: after seeding a fresh allocator with one unit-aligned
\* region of 10 * UNITSZ bytes, calling alloc(1) until it returns null gives
\* exactly 9 allocations.
ExhaustCountNine == Exhausted(1) => Cardinality(live) = 9

\* C13, amended: it gives exactly 5 allocations: each alloc(1) takes two
\* units, one for the payload and one for its header.
ExhaustCountFive == Exhausted(1) => Cardinality(live) = 5

\* C13's case: alloc(1) has returned null after the region was used up.
ExhaustedRegion ==
  /\ Exhausted(1)
  /\ ap = NULL
  /\ SumUnits(seeded) = 10
  /\ SumUnits(live) = 10

\* ------------------------------------------------------- further claims
\* No call is in progress.
Quiescent == \A t \in Threads : pc[t] = "idle"

\* C14: with a single region seeded into a fresh allocator, once no call is
\* in progress and every allocation has been freed, the free list is one
\* block at the region's aligned start with all the region's units.
FullCoalescing ==
  (Quiescent /\ live = {} /\ Cardinality(seeded) = 1) =>
    \A s \in seeded :
      /\ ap = s.hdr
      /\ Nxt(mem, s.hdr) = s.hdr
      /\ Nunits(mem, s.hdr) = s.nunits

\* C14's case: the one region was used up by allocations and all of them
\* have been freed again.
AllFreedAgain ==
  /\ Quiescent
  /\ live = {}
  /\ Cardinality(seeded) = 1
  /\ ap # NULL
  /\ budget <= SeqOps - 4

\* C15: add(p, nbytes) with nbytes <= alignment pad + UNITSZ returns at once
\* (there is no error to report) and leaves the free list, the cursor, every
\* header, the region's bytes and the lock as they were.
InvalidRegionNoOp ==
  [][\A t \in Threads :
       /\ \A r \in Regions :
            (r.nbytes <= AddInc(r.p) + UNITSZ /\ AddRegion(t, r)) =>
              /\ pc'[t] = "ret"
              /\ frame'[t].res = NULL
              /\ KeepsHeap
              /\ seeded' = seeded
              /\ lock' = lock
       /\ ( /\ pc[t] = "ret"
            /\ frame[t].call = "add"
            /\ frame[t].p = NULL
            /\ pc'[t] # "ret" ) =>
              pc'[t] = "idle" /\ KeepsHeap /\ seeded' = seeded /\ lock' = lock
  ]_vars

\* C15's case: an add of a region too small is returning while there is a
\* free list.
RegionRejected ==
  \E t \in Threads :
    /\ pc[t] = "ret"
    /\ frame[t].call = "add"
    /\ frame[t].p = NULL
    /\ ap # NULL

\* The block alloc's search from the cursor's successor matches for thread
\* t's request, and the units the request needs.
Matched(t) ==
  AllocSearch(mem, ap, ap, Nxt(mem, ap), UnitsFor(frame[t].nbytes), Fuel)

\* Thread t's alloc runs its critical section and matches a block larger
\* than it needs.
SplitsBlock(t) ==
  /\ RunsAlloc(t)
  /\ ap # NULL
  /\ Matched(t).found
  /\ Nunits(mem, Matched(t).cur) > UnitsFor(frame[t].nbytes)

\* C16: when alloc matches a free block with nunits > need, it returns the
\* highest need units of that block, the block stays where it is on the list
\* with nunits reduced by need (at least 1), and no nxt of any free-list node
\* changes.
TailSplit ==
  [][\A t \in Threads :
       SplitsBlock(t) =>
         LET cur == Matched(t).cur
             need == UnitsFor(frame[t].nbytes)
             hdr == frame'[t].res - UNITSZ
         IN  /\ pc'[t] = "unlock"
             /\ frame'[t].res # NULL
             /\ Nunits(mem', hdr) = need
             /\ Plus(hdr, need) = Plus(cur, Nunits(mem, cur))
             /\ Nunits(mem', cur) = Nunits(mem, cur) - need
             /\ Nunits(mem', cur) >= 1
             /\ hdr = Plus(cur, Nunits(mem', cur))
             /\ cur \in FreeNodes'
             /\ \A h \in FreeNodes : Nxt(mem', h) = Nxt(mem, h)
  ]_vars

\* C16's case: alloc has split the tail off a block that is not the only one
\* on the list.
TailTaken ==
  \E t \in Threads :
    /\ pc[t] = "unlock"
    /\ frame[t].op = "alloc"
    /\ frame[t].res # NULL
    /\ Len(Ring(mem, ap).nodes) >= 2
    /\ \E h \in FreeNodes : Plus(h, Nunits(mem, h)) = frame[t].res - UNITSZ

\* The free blocks in ring order from the cursor's successor to the cursor
\* itself (a is not null).
RingOrder(m, a) ==
  LET ns == Ring(m, a).nodes
  IN  Tail(ns) \o <<ns[1]>>

\* The place in ring order of the first block with at least need units, or 0.
FirstFit(m, a, need) ==
  LET o == RingOrder(m, a)
      fits == { i \in 1 .. Len(o) : Nunits(m, o[i]) >= need }
  IN  IF fits = {} THEN 0 ELSE CHOOSE i \in fits : \A j \in fits : i <= j

\* With exactly two free blocks of the same size, two allocs of that size one
\* after the other return the block after the cursor and then the cursor's.
TwoHolesInTurn(m, a) ==
  (a # NULL /\ Ring(m, a).closed /\ Len(Ring(m, a).nodes) = 2) =>
    LET first == RingOrder(m, a)[1]
        other == RingOrder(m, a)[2]
        c == allocsz(m, first + UNITSZ)
        b1 == AllocBody(m, a, c)
        b2 == AllocBody(b1.mem, b1.p, c)
    IN  (Nunits(m, first) = Nunits(m, other) /\ Nunits(m, first) >= 2) =>
          /\ ~b1.stuck /\ b1.res = first + UNITSZ
          /\ ~b2.stuck /\ b2.res = other + UNITSZ

\* C17: a successful alloc takes its block from the first free block with
\* nunits >= need in ring order from the cursor's successor to the cursor
\* itself, and leaves the cursor on that block's predecessor, or null if the
\* list became empty; so with two equal holes two allocs of the hole size in
\* a row return the hole first reached from the cursor and then the other.
NextFit ==
  [][/\ \A t \in Threads :
          (RunsAlloc(t) /\ frame'[t].res # NULL) =>
            LET need == UnitsFor(frame[t].nbytes)
                o == RingOrder(mem, ap)
                i == FirstFit(mem, ap, need)
                hdr == frame'[t].res - UNITSZ
            IN  /\ ap # NULL
                /\ i # 0
                /\ o[i] <= hdr
                /\ Plus(hdr, need) = Plus(o[i], Nunits(mem, o[i]))
                /\ ap' = IF Len(o) = 1 /\ Nunits(mem, o[i]) = need THEN NULL
                         ELSE IF i = 1 THEN ap
                         ELSE o[i - 1]
     /\ TwoHolesInTurn(mem', ap')
  ]_vars

\* C17's case: alloc has passed over the cursor's successor, too small, and
\* split its block off the cursor's own block, leaving two holes of one size.
PassedOver ==
  \E t \in Threads :
    /\ pc[t] = "unlock"
    /\ frame[t].op = "alloc"
    /\ frame[t].res # NULL
    /\ Len(Ring(mem, ap).nodes) = 2
    /\ Nxt(mem, ap) # ap
    /\ Nunits(mem, ap) = Nunits(mem, Nxt(mem, ap))
    /\ Plus(Nxt(mem, ap), Nunits(mem, Nxt(mem, ap))) = frame[t].res - UNITSZ

\* Thread t comes to spinlock's exchange.
ComesToExchange(t) == pc[t] # "lock" /\ pc'[t] = "lock"

\* Thread t has just read the flag clear in spinlock's loop on a load.
LoadedClear(t) == pc[t] = "spin" /\ ~lock /\ lock' = lock

\* C18 as claimed: in the fast variant every exchange of a thread comes after
\* a load, in the same acquire, by which the thread saw the flag clear.
PollsBeforeExchange ==
  [][\A t \in Threads :
       (lockFree /\ ComesToExchange(t)) => LoadedClear(t)]_vars

\* C18, amended: in the fast variant an acquire begins with the exchange;
\* after an exchange that read the flag set the thread polls it with loads
\* until it reads clear and only then exchanges again, so every exchange but
\* the first of an acquire comes after a load that saw the flag clear; an
\* exchange that read clear has set the flag and the acquire is complete.
ExchangeThenPoll ==
  [][\A t \in Threads :
       lockFree =>
         /\ ComesToExchange(t) => LoadedClear(t) \/ pc[t] \in {"idle", "memcpy"}
         /\ (pc[t] = "lock" /\ pc'[t] # "lock") =>
              IF lock THEN pc'[t] = "spin" /\ lock'
                      ELSE pc'[t] = "cs" /\ lock'
         /\ (pc[t] = "spin" /\ pc'[t] # "spin") =>
              LoadedClear(t) /\ pc'[t] = "lock"
  ]_vars

\* C18's case: in the fast variant a thread that found the lock taken is in
\* the loop, and the flag is clear again: its next load lets it retry.
SpinnerSeesClear ==
  \E t \in Threads : lockFree /\ pc[t] = "spin" /\ ~lock

\* The live allocations that no free or realloc in progress was passed.
Untouched == { l \in live : \A t \in Threads : frame[t].p # l.ptr }

\* C19: while p is live and no free or realloc of p has begun, no step of any
\* thread changes the nunits of p's header, so allocsz(p) stays what it was.
LiveHeadersKept ==
  [][\A l \in Untouched \cap Untouched' :
       /\ Nunits(mem', l.ptr - UNITSZ) = Nunits(mem, l.ptr - UNITSZ)
       /\ allocsz(mem', l.ptr) = allocsz(mem, l.ptr)
  ]_vars

\* C19's case: one thread's alloc has split a block while another allocation
\* is live and in no call.
AllocBesideLive ==
  \E t \in Threads :
    /\ pc[t] = "unlock"
    /\ frame[t].op = "alloc"
    /\ frame[t].res # NULL
    /\ \E l \in Untouched : l.ptr # frame[t].res

\* The number of nodes alloc's search examines from cur on (lines 80-94).
RECURSIVE AllocVisits(_, _, _, _, _)
AllocVisits(m, a, cur, nunits, fuel) ==
  IF ~Valid(cur) \/ fuel = 0 THEN 1
  ELSE IF Nunits(m, cur) >= nunits \/ cur = a THEN 1
  ELSE 1 + AllocVisits(m, a, Nxt(m, cur), nunits, fuel - 1)

\* The number of nodes free's walk examines from cur on (lines 111-114).
RECURSIVE FreeVisits(_, _, _, _)
FreeVisits(m, cur, p, fuel) ==
  IF ~Valid(cur) \/ fuel = 0 THEN 1
  ELSE LET nxt == Nxt(m, cur)
       IN  IF (p > cur /\ p < nxt) \/ (cur >= nxt /\ (p > cur \/ p < nxt))
           THEN 1
           ELSE 1 + FreeVisits(m, nxt, p, fuel - 1)

\* Thread t runs the critical section of its call.
RunsCS(t) == pc[t] = "cs" /\ pc'[t] # "cs"

\* C20: in its critical section alloc's search, free's walk and for_blocks's
\* traversal each end after at most as many nodes as the free list holds
\* (for_blocks calling back once per free block) and the call goes on to
\* spinunlock, which clears the lock, and then returns (realloc going on to
\* its copy and its free): no call stays in its critical section or stops
\* elsewhere for ever.
CallsComplete ==
  [][\A t \in Threads :
       /\ RunsCS(t) =>
            /\ pc'[t] = "unlock"
            /\ (ap # NULL /\ frame[t].op = "alloc") =>
                 AllocVisits(mem, ap, Nxt(mem, ap), Need(frame[t].nbytes), Fuel)
                   <= Cardinality(FreeNodes)
            /\ (ap # NULL /\ frame[t].op = "free") =>
                 FreeVisits(mem, ap, frame[t].p - UNITSZ, Fuel)
                   <= Cardinality(FreeNodes)
            /\ frame[t].op = "for_blocks" =>
                 frame'[t].calls = Cardinality(FreeNodes)
       /\ (pc[t] = "unlock" /\ pc'[t] # "unlock") =>
            ~lock' /\ pc'[t] \in {"ret", "memcpy"}
       /\ (pc[t] = "memcpy" /\ pc'[t] # "memcpy") => pc'[t] = "lock"
       /\ (pc[t] = "ret" /\ pc'[t] # "ret") => pc'[t] = "idle"
  ]_vars

\* C20's case: for_blocks has gone round a list of two blocks or more.
WentRound ==
  \E t \in Threads :
    /\ pc[t] = "unlock"
    /\ frame[t].op = "for_blocks"
    /\ frame[t].calls >= 2

====
